---- MODULE Spec2Model ----
(***************************************************************************)
(* Session handling of omada-api-helper.js: the module-level session       *)
(* `state`, the HTTP wrapper request(), the three handshake steps run by   *)
(* connect() and the generic apiCall().                                    *)
(*                                                                         *)
(* Strings are sequences of one-character strings, so that split(),        *)
(* includes(), startsWith() and template-literal concatenation are         *)
(* computed the way the code computes them.  The JavaScript values null    *)
(* and undefined are the one-element sequences Null and Undef, whose       *)
(* element is not a character.                                             *)
(*                                                                         *)
(* Node runs one callback at a time: an action is the synchronous code     *)
(* between two awaits (a call up to its first await, or a response's       *)
(* 'end'/'error' handler together with the continuation it resumes).       *)
(***************************************************************************)
EXTENDS Integers, Sequences, FiniteSets, TLC

VARIABLES
    state,      \* the session: controllerId, token, cookies, siteId
    conn,       \* the connect() in progress, or the last one: where it is,
                \* how it ended, the requests it issued (log), the token held
                \* when it began and whether the connect() before it had
                \* succeeded, the values its responses carried (got)
    pending,    \* apiCall() invocations awaiting their response
    lastSet,    \* history: cookie name -> value the server set last
    fresh,      \* history: cookie names set since the last connect() began
    ev,         \* history: the last step: request sent, response seen, result
    jar,        \* history: the cookies the server set, as name and value, in
                \* the order of their last arrival
    env,        \* process.env.NODE_TLS_REJECT_UNAUTHORIZED
    rec,        \* a caller running the documented recovery pattern: where it
                \* is and the result it holds
    late,       \* a caller whose apiCall() is answered after a reconnect:
                \* where it is, the store and the names set since the
                \* reconnect began, as they were when the answer arrived
    exp         \* exploreSettings(): where it is, the endpoint it probes,
                \* its results

vars ==
    <<state, conn, pending, lastSet, fresh, ev, jar, env, rec, late, exp>>

----------------------------------------------------------------------------
(* Bounds *)

MaxInFlight == 2
MaxSetCookie == 1

----------------------------------------------------------------------------
(* JavaScript values and string primitives *)

Null == <<"#null">>
Undef == <<"#undefined">>

\* if (v), v?.x && ..., for null, undefined and strings
Truthy(v) == v /= Null /\ v /= Undef /\ v /= <<>>

\* `${v}` in a template literal
ToStr(v) ==
    IF v = Null THEN <<"n", "u", "l", "l">>
    ELSE IF v = Undef THEN <<"u", "n", "d", "e", "f", "i", "n", "e", "d">>
    ELSE v

\* s.includes(ch)
Includes(s, ch) == \E i \in 1..Len(s) : s[i] = ch

RECURSIVE IndexFrom(_, _, _)
IndexFrom(s, ch, i) ==
    IF i > Len(s) THEN 0
    ELSE IF s[i] = ch THEN i
    ELSE IndexFrom(s, ch, i + 1)

\* s.split(ch)[0]
SplitFirst(s, ch) ==
    LET k == IndexFrom(s, ch, 1)
    IN IF k = 0 THEN s ELSE SubSeq(s, 1, k - 1)

\* s.startsWith(p)
StartsWith(s, p) == Len(p) <= Len(s) /\ SubSeq(s, 1, Len(p)) = p

\* list.join(sep)
RECURSIVE Join(_, _)
Join(list, sep) ==
    IF list = <<>> THEN <<>>
    ELSE IF Len(list) = 1 THEN list[1]
    ELSE list[1] \o sep \o Join(Tail(list), sep)

----------------------------------------------------------------------------
(* Configuration and the values a controller can answer with *)

\* CONFIG.baseUrl
BaseUrl == <<"h", "t", "t", "p", "s", ":", "/", "/", "o">>

ControllerIds == {<<"c", "1">>, <<"c", "2">>}
Tokens == {<<"t", "1">>, <<"t", "2">>}

\* errorCode of an envelope, absent or a number: 0 (success), -1 (session
\* expired), -30109 (wrong credentials)
NoCode == <<>>
Success == <<0>>
Expired == <<-1>>
BadCredentials == <<-30109>>

\* A response body that is JSON text: the envelope fields the helper reads.
\* sites is result.data, the list of the ids of the site entries.
Json(code, cid, tok, sites) ==
    [json |-> TRUE, errorCode |-> code, omadacId |-> cid, token |-> tok,
     sites |-> sites, text |-> <<>>]

\* A response body that is not JSON: the HTML login page.
Html ==
    [json |-> FALSE, errorCode |-> NoCode, omadacId |-> Undef, token |-> Undef,
     sites |-> <<>>, text |-> <<"<", "h", "t", "m", "l", ">">>]

InfoBodies ==
    {Json(Success, c, Undef, <<>>) : c \in ControllerIds \cup {Undef}}

LoginBodies ==
    {Json(c, Undef, t, <<>>) :
        c \in {Success, BadCredentials}, t \in Tokens \cup {Undef}}
        \cup {Html}

\* Site lists: none, one site, two sites, one entry without an id
SiteLists ==
    {<<>>, <<<<"s", "1">>>>, <<<<"s", "2">>, <<"s", "1">>>>, <<Undef>>}

SitesBodies == {Json(Success, Undef, Undef, l) : l \in SiteLists} \cup {Html}

CallBodies ==
    {Json(c, Undef, Undef, <<>>) : c \in {Success, Expired}} \cup {Html}

\* The cookies a response sets: name, value and the attributes after them.
\* A stands for the session cookie; AB is a second cookie whose name has the
\* first one's name as a prefix.
SessionCookies ==
    {[name |-> <<"A">>, value |-> <<"1">>, attrs |-> <<>>],
     [name |-> <<"A">>, value |-> <<"2">>, attrs |-> <<";", " ", "P">>]}

AllCookies ==
    SessionCookies
        \cup {[name |-> <<"A", "B">>, value |-> <<"1">>, attrs |-> <<>>]}

CookieNames == {c.name : c \in AllCookies}

\* The text of one Set-Cookie header
SetCookieLine(c) == c.name \o <<"=">> \o c.value \o c.attrs

SetCookieLists(cookies) ==
    UNION {[1..n -> cookies] : n \in 0..MaxSetCookie}

\* A response: the transport failed, or headers and a body arrived.
TransportError ==
    [transport |-> "error", setCookie |-> <<>>, body |-> Html]

Responses(bodies, cookies) ==
    {[transport |-> "ok", setCookie |-> l, body |-> b] :
        l \in SetCookieLists(cookies), b \in bodies} \cup {TransportError}

----------------------------------------------------------------------------
(* request(): the synchronous part builds the options, the 'end' handler   *)
(* merges the cookies and resolves, the 'error' handler rejects.           *)

\* Faulty variant: the header is never set.
CsrfTokenHeaderNever(st) == Undef

\* Faulty variant: the header is filled from the wrong session field.
CsrfTokenHeaderFromSite(st) == IF Truthy(st.token) THEN st.siteId ELSE Undef

\* options.headers['Csrf-Token']
CsrfTokenHeader(st) == IF Truthy(st.token) THEN st.token ELSE Undef

\* Faulty variant: only the first stored cookie is sent.
CookieHeaderFirst(st) == IF Len(st.cookies) > 0 THEN st.cookies[1] ELSE Undef

\* options.headers['Cookie']
CookieHeader(st) ==
    IF Len(st.cookies) > 0 THEN Join(st.cookies, <<";", " ">>) ELSE Undef

\* const isHttps = parsed.protocol === 'https:'
IsHttps(url) == StartsWith(url, <<"h", "t", "t", "p", "s", ":">>)

\* Faulty variant: the process setting is left alone.
RejectUnauthorizedEnvKept(e, url) == e

\* if (isHttps) process.env.NODE_TLS_REJECT_UNAUTHORIZED = '0'
RejectUnauthorizedEnv(e, url) == IF IsHttps(url) THEN <<"0">> ELSE e

Request(st, kind, method, url, hasBody) ==
    [kind |-> kind, method |-> method, url |-> url,
     csrf |-> CsrfTokenHeader(st), cookie |-> CookieHeader(st),
     contentLength |-> hasBody]

\* Faulty variant: a name already in the store keeps its entry.
MergeCookieKeepOld(cookies, c) ==
    LET cookiePart == SplitFirst(c, ";")
        cookieName == SplitFirst(cookiePart, "=")
    IN IF \E i \in 1..Len(cookies) :
              StartsWith(cookies[i], cookieName \o <<"=">>)
       THEN cookies
       ELSE Append(cookies, cookiePart)

\* Faulty variant: the old entry is matched by the name without the '='.
MergeCookiePrefix(cookies, c) ==
    LET cookiePart == SplitFirst(c, ";")
        cookieName == SplitFirst(cookiePart, "=")
    IN Append(SelectSeq(cookies,
                  LAMBDA existing : ~StartsWith(existing, cookieName)),
              cookiePart)

\* Faulty variant: the store is replaced by the new cookie.
MergeCookieStoreOne(cookies, c) == <<SplitFirst(c, ";")>>

\* Faulty variant: the new cookie is pushed, the old entry is not dropped.
MergeCookiePushOnly(cookies, c) == Append(cookies, SplitFirst(c, ";"))

\* setCookies.forEach body: drop the entry of the same name, push the new one
MergeCookie(cookies, c) ==
    LET cookiePart == SplitFirst(c, ";")
        cookieName == SplitFirst(cookiePart, "=")
    IN Append(SelectSeq(cookies,
                  LAMBDA existing : ~StartsWith(existing, cookieName \o <<"=">>)),
              cookiePart)

RECURSIVE StoreCookies(_, _)
StoreCookies(cookies, lines) ==
    IF lines = <<>> THEN cookies
    ELSE StoreCookies(MergeCookie(cookies, Head(lines)), Tail(lines))

\* Faulty variant: the Set-Cookie headers are not read.
OnEndKeepsStore(st, resp) == st

\* The session after the 'end' handler of a response
OnEnd(st, resp) ==
    [st EXCEPT !.cookies =
        StoreCookies(@, [i \in 1..Len(resp.setCookie) |->
                            SetCookieLine(resp.setCookie[i])])]

\* try { JSON.parse(data) } catch { data }
ParseBody(body) ==
    IF body.json
    THEN [type |-> "object", errorCode |-> body.errorCode,
          omadacId |-> body.omadacId, token |-> body.token,
          sites |-> body.sites, text |-> <<>>]
    ELSE [type |-> "string", errorCode |-> NoCode, omadacId |-> Undef,
          token |-> Undef, sites |-> <<>>, text |-> body.text]

NoData ==
    [type |-> "none", errorCode |-> NoCode, omadacId |-> Undef,
     token |-> Undef, sites |-> <<>>, text |-> <<>>]

\* Faulty variant: a body that is not JSON rejects.
SettleJsonOnly(resp) ==
    IF resp.transport = "error" \/ ~resp.body.json
    THEN [settled |-> "reject", data |-> NoData]
    ELSE [settled |-> "resolve", data |-> ParseBody(resp.body)]

\* How the promise of request() settles
Settle(resp) ==
    IF resp.transport = "error"
    THEN [settled |-> "reject", data |-> NoData]
    ELSE [settled |-> "resolve", data |-> ParseBody(resp.body)]

----------------------------------------------------------------------------
(* The handshake steps and apiCall() *)

InfoUrl == BaseUrl \o <<"/", "a", "p", "i", "/", "i", "n", "f", "o">>

ApiV2 == <<"/", "a", "p", "i", "/", "v", "2">>

LoginUrl(st) ==
    BaseUrl \o <<"/">> \o ToStr(st.controllerId) \o ApiV2
        \o <<"/", "l", "o", "g", "i", "n">>

TokenParam == <<"t", "o", "k", "e", "n", "=">>

SitesUrl(st) ==
    BaseUrl \o <<"/">> \o ToStr(st.controllerId) \o ApiV2
        \o <<"/", "s", "i", "t", "e", "s", "?">> \o TokenParam
        \o ToStr(st.token) \o <<"&", "p", "=", "1">>

\* Faulty variant: any parsed JSON answer counts as an identity.
ControllerIdFoundAnyJson(data) == data.type = "object"

\* if (res.data?.result?.omadacId)
ControllerIdFound(data) == Truthy(data.omadacId)

\* Faulty variant: the identity is returned but not stored.
SetControllerIdNowhere(st, data) == st

\* state.controllerId = res.data.result.omadacId
SetControllerId(st, data) == [st EXCEPT !.controllerId = data.omadacId]

\* Faulty variants of the login test: the token is not looked at; the
\* error code is not looked at.
LoginOkAnyToken(data) == data.errorCode = Success

LoginOkAnyCode(data) == Truthy(data.token)

\* Faulty variant: the error code or the token is enough.
LoginOkCodeOrToken(data) == data.errorCode = Success \/ Truthy(data.token)

\* if (res.data?.errorCode === 0 && res.data?.result?.token)
LoginOk(data) == data.errorCode = Success /\ Truthy(data.token)

\* Faulty variant: the token is returned but not stored.
SetTokenNowhere(st, data) == st

\* Faulty variant: a token already held is kept.
SetTokenOnce(st, data) ==
    IF Truthy(st.token) THEN st ELSE [st EXCEPT !.token = data.token]

\* state.token = res.data.result.token
SetToken(st, data) == [st EXCEPT !.token = data.token]

\* if (res.data?.result?.data?.length > 0)
SitesFound(data) == Len(data.sites) > 0

\* Faulty variant: the last entry is taken.
SetSiteIdLast(st, data) ==
    [st EXCEPT !.siteId = data.sites[Len(data.sites)]]

\* state.siteId = res.data.result.data[0].id
SetSiteId(st, data) == [st EXCEPT !.siteId = data.sites[1]]

\* Faulty variant: connect() starts from an empty session.
ConnectEntryCleared(st) ==
    [controllerId |-> Null, token |-> Null, cookies |-> <<>>, siteId |-> Null]

\* connect() on entry: nothing of the session is reset before the first step
ConnectEntry(st) == st

\* const separator = path.includes('?') ? '&' : '?'
Separator(path) == IF Includes(path, "?") THEN <<"&">> ELSE <<"?">>

\* Faulty variants: the site segment is left out; the token parameter is
\* left out.
ApiCallUrlGlobal(st, path) ==
    BaseUrl \o <<"/">> \o ToStr(st.controllerId) \o ApiV2
        \o path \o Separator(path) \o TokenParam \o ToStr(st.token)

ApiCallUrlNoToken(st, path) ==
    BaseUrl \o <<"/">> \o ToStr(st.controllerId) \o ApiV2
        \o <<"/", "s", "i", "t", "e", "s", "/">> \o ToStr(st.siteId) \o path

ApiCallUrl(st, path) ==
    BaseUrl \o <<"/">> \o ToStr(st.controllerId) \o ApiV2
        \o <<"/", "s", "i", "t", "e", "s", "/">> \o ToStr(st.siteId)
        \o path \o Separator(path) \o TokenParam \o ToStr(st.token)

\* Faulty variant: an answer that is not JSON (the login page) drops the
\* site identifier.
ApiCallReturnDropsSite(st, data) ==
    [state |-> IF data.type = "string" THEN [st EXCEPT !.siteId = Null]
               ELSE st,
     value |-> data]

\* Faulty variant: a session-expired envelope drops the token.
ApiCallReturnDropsToken(st, data) ==
    [state |-> IF data.errorCode = Expired THEN [st EXCEPT !.token = Null]
               ELSE st,
     value |-> data]

\* apiCall() after its await: the session is left alone, res.data returned
ApiCallReturn(st, data) == [state |-> st, value |-> data]

\* The calls the helpers make: createNetwork (a plain path, a body),
\* getNetworks (a path with a query string), and exploreSettings, which
\* appends '?currentPage=1&currentPageSize=5' to each endpoint of its list,
\* among them endpoints with a query string of their own.
Paging == <<"?", "p", "=", "1">>

Endpoints == {<<"/", "n">>, <<"/", "a", "?", "t", "=", "g">>}

ExplorePath(endpoint) == endpoint \o Paging

CallInputs ==
    {[method |-> "POST", path |-> <<"/", "n">>, hasBody |-> TRUE],
     [method |-> "GET", path |-> <<"/", "n", "?", "p", "=", "1">>,
      hasBody |-> FALSE]}
        \cup {[method |-> "GET", path |-> ExplorePath(e), hasBody |-> FALSE] :
                e \in Endpoints}

----------------------------------------------------------------------------
(* History *)

NoReq ==
    [kind |-> "none", method |-> "", url |-> <<>>, csrf |-> Undef,
     cookie |-> Undef, contentLength |-> FALSE]

NoResp == [transport |-> "none", body |-> Html]

\* What the history keeps of a response
Seen(resp) == [transport |-> resp.transport, body |-> resp.body]

NoRet == [outcome |-> "none", value |-> NoData]

Event(act, req, resp, ret, path) ==
    [act |-> act, req |-> req, resp |-> resp, ret |-> ret, path |-> path,
     replaced |-> FALSE]

\* A response step: whether it set a cookie that the server had set before
\* to another value
Replaced(resp) ==
    \E i \in 1..Len(resp.setCookie) :
        /\ lastSet[resp.setCookie[i].name] /= Undef
        /\ lastSet[resp.setCookie[i].name] /= resp.setCookie[i].value

Response(act, req, resp, ret) ==
    [Event(act, req, Seen(resp), ret, <<>>) EXCEPT !.replaced = Replaced(resp)]

RECURSIVE NoteSet(_, _)
NoteSet(last, cookies) ==
    IF cookies = <<>> THEN last
    ELSE NoteSet([last EXCEPT ![Head(cookies).name] = Head(cookies).value],
                 Tail(cookies))

\* The reference store: one entry per name, a cookie set again moves to the
\* end
RECURSIVE NoteJar(_, _)
NoteJar(j, cookies) ==
    IF cookies = <<>> THEN j
    ELSE NoteJar(Append(SelectSeq(j, LAMBDA e : e.name /= Head(cookies).name),
                        [name |-> Head(cookies).name,
                         value |-> Head(cookies).value]),
                 Tail(cookies))

\* The process setting after a step: request() writes it when it sends
Sent(e, req) ==
    IF req.kind = "none" THEN e ELSE RejectUnauthorizedEnv(e, req.url)

\* What a failed step throws: the message carries JSON.stringify(res.data)
Thrown(data) == [outcome |-> "threw", value |-> data]

Noted(resp) ==
    /\ lastSet' = NoteSet(lastSet, resp.setCookie)
    /\ jar' = NoteJar(jar, resp.setCookie)
    /\ fresh' = fresh \cup {resp.setCookie[i].name : i \in 1..Len(resp.setCookie)}

NoFields == [controllerId |-> Undef, token |-> Undef, siteId |-> Undef]

\* Faulty variant: the outcome is noted but the step stays open and is
\* run again on the next answer.
EndedStuck(c, outcome, err) == [c EXCEPT !.outcome = outcome, !.err = err]

Ended(c, outcome, err) ==
    [c EXCEPT !.pc = "idle", !.outcome = outcome, !.err = err]

----------------------------------------------------------------------------
(* Init and the actions *)

Init ==
    /\ state = [controllerId |-> Null, token |-> Null, cookies |-> <<>>,
                siteId |-> Null]
    /\ conn = [pc |-> "idle", outcome |-> "none", err |-> "", log |-> <<>>,
               preToken |-> Null, reconnect |-> FALSE, got |-> NoFields]
    /\ pending = 0
    /\ lastSet = [n \in CookieNames |-> Undef]
    /\ fresh = {}
    /\ ev = Event("Init", NoReq, NoResp, NoRet, <<>>)
    /\ jar = <<>>
    /\ env = Undef
    /\ rec = [pc |-> "idle", result |-> NoData]
    /\ late = [pc |-> "none", held |-> <<>>, issued |-> {}]
    /\ exp = [pc |-> "idle", i |-> 0, results |-> <<>>]

\* Faulty variant: getControllerId() is not awaited, login() is called in
\* the same turn.
ConnectStartNoAwait ==
    /\ conn.pc = "idle"
    /\ state' = ConnectEntry(state)
    /\ conn' = [pc |-> "login", outcome |-> "none", err |-> "",
                log |-> <<"info", "login">>, preToken |-> state.token,
                reconnect |-> conn.outcome = "ok", got |-> NoFields]
    /\ ev' = Event("ConnectStart",
                   Request(state', "login", "POST", LoginUrl(state'), TRUE),
                   NoResp, NoRet, <<>>)
    /\ fresh' = {}
    /\ env' = Sent(env, ev'.req)
    /\ UNCHANGED <<pending, lastSet, jar, rec, late, exp>>

\* connect() up to the await in getControllerId()
ConnectStart ==
    /\ conn.pc = "idle"
    /\ state' = ConnectEntry(state)
    /\ conn' = [pc |-> "info", outcome |-> "none", err |-> "",
                log |-> <<"info">>, preToken |-> state.token,
                reconnect |-> conn.outcome = "ok", got |-> NoFields]
    /\ ev' = Event("ConnectStart",
                   Request(state', "info", "GET", InfoUrl, FALSE),
                   NoResp, NoRet, <<>>)
    /\ fresh' = {}
    /\ env' = Sent(env, ev'.req)
    /\ UNCHANGED <<pending, lastSet, jar, rec, late, exp>>

\* The /api/info response: the rest of getControllerId(), then login() up to
\* its await
InfoResponse(resp) ==
    /\ conn.pc = "info"
    /\ LET r == Settle(resp)
           st1 == OnEnd(state, resp)
           st2 == SetControllerId(st1, r.data)
       IN IF r.settled = "reject"
          THEN /\ state' = state
               /\ conn' = Ended(conn, "fail", "transport")
               /\ ev' = Response("InfoResponse", NoReq, resp, Thrown(NoData))
          ELSE IF ControllerIdFound(r.data)
          THEN /\ state' = st2
               /\ conn' = [conn EXCEPT !.pc = "login",
                                       !.got.controllerId = resp.body.omadacId,
                                       !.log = Append(@, "login")]
               /\ ev' = Response("InfoResponse",
                                 Request(st2, "login", "POST", LoginUrl(st2),
                                         TRUE),
                                 resp, NoRet)
          ELSE /\ state' = st1
               /\ conn' = Ended(conn, "fail", "Controller ID not found")
               /\ ev' = Response("InfoResponse", NoReq, resp, Thrown(r.data))
    /\ Noted(resp)
    /\ env' = Sent(env, ev'.req)
    /\ UNCHANGED <<pending, rec, late, exp>>

\* The login response: the rest of login(), then getSiteId() up to its await
LoginResponse(resp) ==
    /\ conn.pc = "login"
    /\ LET r == Settle(resp)
           st1 == OnEnd(state, resp)
           st2 == SetToken(st1, r.data)
       IN IF r.settled = "reject"
          THEN /\ state' = state
               /\ conn' = Ended(conn, "fail", "transport")
               /\ ev' = Response("LoginResponse", NoReq, resp, Thrown(NoData))
          ELSE IF LoginOk(r.data)
          THEN /\ state' = st2
               /\ conn' = [conn EXCEPT !.pc = "sites",
                                       !.got.token = resp.body.token,
                                       !.log = Append(@, "sites")]
               /\ ev' = Response("LoginResponse",
                                 Request(st2, "sites", "GET", SitesUrl(st2),
                                         FALSE),
                                 resp, NoRet)
          ELSE /\ state' = st1
               /\ conn' = Ended(conn, "fail", "Login failed")
               /\ ev' = Response("LoginResponse", NoReq, resp, Thrown(r.data))
    /\ Noted(resp)
    /\ env' = Sent(env, ev'.req)
    /\ UNCHANGED <<pending, rec, late, exp>>

\* The site-list response: the rest of getSiteId() and of connect()
SitesResponse(resp) ==
    /\ conn.pc = "sites"
    /\ LET r == Settle(resp)
           st1 == OnEnd(state, resp)
       IN IF r.settled = "reject"
          THEN /\ state' = state
               /\ conn' = Ended(conn, "fail", "transport")
               /\ ev' = Response("SitesResponse", NoReq, resp, Thrown(NoData))
          ELSE IF SitesFound(r.data)
          THEN /\ state' = SetSiteId(st1, r.data)
               /\ conn' = [Ended(conn, "ok", "")
                               EXCEPT !.got.siteId = Head(resp.body.sites)]
               /\ ev' = Response("SitesResponse", NoReq, resp, NoRet)
          ELSE /\ state' = st1
               /\ conn' = Ended(conn, "fail", "No sites found")
               /\ ev' = Response("SitesResponse", NoReq, resp, Thrown(r.data))
    /\ Noted(resp)
    /\ env' = Sent(env, ev'.req)
    /\ UNCHANGED <<pending, rec, late, exp>>

\* apiCall(method, path, body) up to its await
ApiCallStart(in) ==
    /\ pending < MaxInFlight
    /\ pending' = pending + 1
    /\ ev' = Event("ApiCallStart",
                   Request(state, "call", in.method,
                           ApiCallUrl(state, in.path), in.hasBody),
                   NoResp, NoRet, in.path)
    /\ env' = Sent(env, ev'.req)
    /\ UNCHANGED <<state, conn, lastSet, fresh, jar, rec, late, exp>>

\* The response of an apiCall(): the 'end' or 'error' handler, then the rest
\* of apiCall()
ApiCallResponse(resp) ==
    /\ pending > 0
    /\ pending' = pending - 1
    /\ LET r == Settle(resp)
           after == ApiCallReturn(OnEnd(state, resp), r.data)
       IN IF r.settled = "reject"
          THEN /\ state' = state
               /\ ev' = Response("ApiCallResponse", NoReq, resp,
                                 [outcome |-> "threw", value |-> NoData])
          ELSE /\ state' = after.state
               /\ ev' = Response("ApiCallResponse", NoReq, resp,
                                 [outcome |-> "returned",
                                  value |-> after.value])
    /\ Noted(resp)
    /\ UNCHANGED <<conn, env, rec, late, exp>>

Next ==
    \/ ConnectStart
    \/ \E resp \in Responses(InfoBodies, SessionCookies) : InfoResponse(resp)
    \/ \E resp \in Responses(LoginBodies, SessionCookies) : LoginResponse(resp)
    \/ \E resp \in Responses(SitesBodies, SessionCookies) : SitesResponse(resp)
    \/ \E in \in CallInputs : ApiCallStart(in)
    \/ \E resp \in Responses(CallBodies, SessionCookies) : ApiCallResponse(resp)

Spec == Init /\ [][Next]_vars

\* The same operations against a controller that always answers the
\* handshake with the same envelope (or not at all) and sets any of the
\* cookies, two names among them.
OneInfo == {Json(Success, <<"c", "1">>, Undef, <<>>)}

OneLogin == {Json(Success, Undef, <<"t", "1">>, <<>>)}

OneSites == {Json(Success, Undef, Undef, <<<<"s", "1">>>>)}

OneCall == {Json(Success, Undef, Undef, <<>>)}

NextCookies ==
    \/ ConnectStart
    \/ \E resp \in Responses(OneInfo, AllCookies) : InfoResponse(resp)
    \/ \E resp \in Responses(OneLogin, AllCookies) : LoginResponse(resp)
    \/ \E resp \in Responses(OneSites, AllCookies) : SitesResponse(resp)
    \/ \E in \in CallInputs : ApiCallStart(in)
    \/ \E resp \in Responses(OneCall, AllCookies) : ApiCallResponse(resp)

SpecCookies == Init /\ [][NextCookies]_vars

\* The same, when every request that was issued is eventually answered, by
\* a response or by a transport error
Answered ==
    /\ WF_vars(\E resp \in Responses(OneInfo, AllCookies) : InfoResponse(resp))
    /\ WF_vars(\E resp \in Responses(OneLogin, AllCookies) :
                  LoginResponse(resp))
    /\ WF_vars(\E resp \in Responses(OneSites, AllCookies) :
                  SitesResponse(resp))
    /\ WF_vars(\E resp \in Responses(OneCall, AllCookies) :
                  ApiCallResponse(resp))

SpecAnswered == Init /\ [][NextCookies]_vars /\ Answered

----------------------------------------------------------------------------
(* The recovery pattern documented for long-running scripts:                *)
(*   try { result = await apiCall('GET', '/devices') }                     *)
(*   catch (e) { await connect(); result = await apiCall('GET', '/devices') } *)

DevicesPath == <<"/", "d">>

DevicesRequest(st) ==
    Request(st, "call", "GET", ApiCallUrl(st, DevicesPath), FALSE)

\* The try block up to its await
RecoverStart ==
    /\ rec.pc \in {"idle", "done", "failed"}
    /\ conn.pc = "idle"
    /\ rec' = [pc |-> "try", result |-> NoData]
    /\ ev' = Event("RecoverStart", DevicesRequest(state), NoResp, NoRet,
                   DevicesPath)
    /\ env' = Sent(env, ev'.req)
    /\ UNCHANGED <<state, conn, pending, lastSet, fresh, jar, late, exp>>

\* The response of the call in the try block: the rest of apiCall(); when it
\* returns the pattern is over, when it throws the catch block runs connect()
\* up to its first await
RecoverTryResponse(resp) ==
    /\ rec.pc = "try"
    /\ LET r == Settle(resp)
           after == ApiCallReturn(OnEnd(state, resp), r.data)
       IN IF r.settled = "reject"
          THEN /\ state' = ConnectEntry(state)
               /\ rec' = [pc |-> "reconnect", result |-> NoData]
               /\ conn' = [pc |-> "info", outcome |-> "none", err |-> "",
                           log |-> <<"info">>, preToken |-> state.token,
                           reconnect |-> conn.outcome = "ok",
                           got |-> NoFields]
               /\ ev' = Response("RecoverTryResponse",
                                 Request(state', "info", "GET", InfoUrl, FALSE),
                                 resp, Thrown(NoData))
               /\ fresh' = {}
          ELSE /\ state' = after.state
               /\ rec' = [pc |-> "done", result |-> after.value]
               /\ conn' = conn
               /\ ev' = Response("RecoverTryResponse", NoReq, resp,
                                 [outcome |-> "returned",
                                  value |-> after.value])
               /\ fresh' = fresh \cup {resp.setCookie[i].name :
                                           i \in 1..Len(resp.setCookie)}
    /\ lastSet' = NoteSet(lastSet, resp.setCookie)
    /\ jar' = NoteJar(jar, resp.setCookie)
    /\ env' = Sent(env, ev'.req)
    /\ UNCHANGED <<pending, late, exp>>

\* The catch block after its connect(): the call is repeated, or the error
\* of connect() leaves the pattern
RecoverRetry ==
    /\ rec.pc = "reconnect"
    /\ conn.pc = "idle"
    /\ IF conn.outcome = "ok"
       THEN /\ rec' = [pc |-> "retry", result |-> NoData]
            /\ ev' = Event("RecoverRetry", DevicesRequest(state), NoResp,
                           NoRet, DevicesPath)
       ELSE /\ rec' = [pc |-> "failed", result |-> NoData]
            /\ ev' = Event("RecoverRetry", NoReq, NoResp, Thrown(NoData),
                           DevicesPath)
    /\ env' = Sent(env, ev'.req)
    /\ UNCHANGED <<state, conn, pending, lastSet, fresh, jar, late, exp>>

\* The response of the repeated call
RecoverRetryResponse(resp) ==
    /\ rec.pc = "retry"
    /\ LET r == Settle(resp)
           after == ApiCallReturn(OnEnd(state, resp), r.data)
       IN IF r.settled = "reject"
          THEN /\ state' = state
               /\ rec' = [pc |-> "failed", result |-> NoData]
               /\ ev' = Response("RecoverRetryResponse", NoReq, resp,
                                 Thrown(NoData))
          ELSE /\ state' = after.state
               /\ rec' = [pc |-> "done", result |-> after.value]
               /\ ev' = Response("RecoverRetryResponse", NoReq, resp,
                                 [outcome |-> "returned",
                                  value |-> after.value])
    /\ Noted(resp)
    /\ UNCHANGED <<conn, pending, env, late, exp>>

\* A script that connects and then runs the pattern, any number of times
NextRecover ==
    \/ rec.pc = "idle" /\ ConnectStart
    \/ \E resp \in Responses(OneInfo, SessionCookies) : InfoResponse(resp)
    \/ \E resp \in Responses(OneLogin, SessionCookies) : LoginResponse(resp)
    \/ \E resp \in Responses(OneSites, SessionCookies) : SitesResponse(resp)
    \/ RecoverStart
    \/ \E resp \in Responses(CallBodies, SessionCookies) :
          RecoverTryResponse(resp)
    \/ RecoverRetry
    \/ \E resp \in Responses(CallBodies, SessionCookies) :
          RecoverRetryResponse(resp)

SpecRecover == Init /\ [][NextRecover]_vars

----------------------------------------------------------------------------
(* A call that outlives its session: apiCall() is issued on an established *)
(* session, connect() is called again before the answer is there, and the  *)
(* answer arrives at some point after that.                                *)

NoCookies == {}

\* apiCall('GET', '/devices') up to its await, on an established session
LateCallStart ==
    /\ late.pc = "none"
    /\ conn.pc = "idle"
    /\ conn.outcome = "ok"
    /\ late' = [late EXCEPT !.pc = "sent"]
    /\ ev' = Event("LateCallStart", DevicesRequest(state), NoResp, NoRet,
                   DevicesPath)
    /\ env' = Sent(env, ev'.req)
    /\ UNCHANGED <<state, conn, pending, lastSet, fresh, jar, rec, exp>>

\* connect() up to the await in getControllerId(), the call still pending
LateReconnectStart ==
    /\ late.pc = "sent"
    /\ conn.pc = "idle"
    /\ late' = [late EXCEPT !.pc = "reconnect"]
    /\ state' = ConnectEntry(state)
    /\ conn' = [pc |-> "info", outcome |-> "none", err |-> "",
                log |-> <<"info">>, preToken |-> state.token,
                reconnect |-> conn.outcome = "ok", got |-> NoFields]
    /\ ev' = Event("LateReconnectStart",
                   Request(state', "info", "GET", InfoUrl, FALSE),
                   NoResp, NoRet, <<>>)
    /\ fresh' = {}
    /\ env' = Sent(env, ev'.req)
    /\ UNCHANGED <<pending, lastSet, jar, rec, exp>>

\* The answer to the pending call: the 'end' or 'error' handler, then the
\* rest of apiCall()
LateResponse(resp) ==
    /\ late.pc \in {"sent", "reconnect"}
    /\ late' = [pc |-> IF /\ late.pc = "reconnect"
                          /\ conn.pc = "idle"
                          /\ conn.outcome = "ok"
                       THEN "late" ELSE "early",
                held |-> state.cookies, issued |-> fresh]
    /\ LET r == Settle(resp)
           after == ApiCallReturn(OnEnd(state, resp), r.data)
       IN IF r.settled = "reject"
          THEN /\ state' = state
               /\ ev' = Response("LateResponse", NoReq, resp, Thrown(NoData))
          ELSE /\ state' = after.state
               /\ ev' = Response("LateResponse", NoReq, resp,
                                 [outcome |-> "returned",
                                  value |-> after.value])
    /\ Noted(resp)
    /\ UNCHANGED <<conn, pending, env, rec, exp>>

\* Only the login sets cookies during a handshake here, so that the names
\* set since a reconnect began are those its login issued.
NextLate ==
    \/ late.pc = "none" /\ ConnectStart
    \/ \E resp \in Responses(OneInfo, NoCookies) : InfoResponse(resp)
    \/ \E resp \in Responses(OneLogin, SessionCookies) : LoginResponse(resp)
    \/ \E resp \in Responses(OneSites, NoCookies) : SitesResponse(resp)
    \/ LateCallStart
    \/ LateReconnectStart
    \/ \E resp \in Responses(CallBodies, SessionCookies) : LateResponse(resp)

SpecLate == Init /\ [][NextLate]_vars

----------------------------------------------------------------------------
(* exploreSettings(): for each endpoint of its list, in order, one          *)
(* apiCall() inside a try/catch, and one entry of results.  Of an entry the *)
(* model keeps whether it is the { error } of the catch block and the       *)
(* errorCode of the answer; hasData and sampleKeys describe data.result,    *)
(* which the envelopes of the model do not detail.                          *)

\* const endpoints: an endpoint without a query string, one with, '/devices'
EndpointList == <<<<"/", "n">>, <<"/", "a", "?", "t", "=", "g">>, DevicesPath>>

\* results[endpoint] = entry
SetResult(results, endpoint, entry) ==
    IF \E i \in 1..Len(results) : results[i].endpoint = endpoint
    THEN [i \in 1..Len(results) |->
             IF results[i].endpoint = endpoint
             THEN [endpoint |-> endpoint, error |-> entry.error,
                   errorCode |-> entry.errorCode]
             ELSE results[i]]
    ELSE Append(results, [endpoint |-> endpoint, error |-> entry.error,
                          errorCode |-> entry.errorCode])

\* Faulty variant: a call that throws leaves no entry.
RecordedOkOnly(results, endpoint, r) ==
    IF r.settled = "reject" THEN results
    ELSE SetResult(results, endpoint,
                   [error |-> FALSE, errorCode |-> r.data.errorCode])

\* The body of the loop after the await: the try block records the answer,
\* the catch block the error
Recorded(results, endpoint, r) ==
    IF r.settled = "reject"
    THEN SetResult(results, endpoint, [error |-> TRUE, errorCode |-> NoCode])
    ELSE SetResult(results, endpoint,
                   [error |-> FALSE, errorCode |-> r.data.errorCode])

\* apiCall('GET', `${endpoint}?currentPage=1&currentPageSize=5`) up to its
\* await
ProbeRequest(st, i) ==
    Request(st, "call", "GET", ApiCallUrl(st, ExplorePath(EndpointList[i])),
            FALSE)

\* exploreSettings() up to the await of its first probe
ExploreStart ==
    /\ exp.pc \in {"idle", "done"}
    /\ conn.pc = "idle"
    /\ exp' = [pc |-> "probing", i |-> 1, results |-> <<>>]
    /\ ev' = Event("ExploreStart", ProbeRequest(state, 1), NoResp, NoRet,
                   ExplorePath(EndpointList[1]))
    /\ env' = Sent(env, ev'.req)
    /\ UNCHANGED <<state, conn, pending, lastSet, fresh, jar, rec, late>>

\* The answer to a probe: the rest of apiCall(), the entry, and the next
\* probe up to its await, or the return of results after the last one
ExploreResponse(resp) ==
    /\ exp.pc = "probing"
    /\ LET r == Settle(resp)
           after == ApiCallReturn(OnEnd(state, resp), r.data)
           st == IF r.settled = "reject" THEN state ELSE after.state
           ret == IF r.settled = "reject" THEN Thrown(NoData)
                  ELSE [outcome |-> "returned", value |-> after.value]
           results == Recorded(exp.results, EndpointList[exp.i], r)
       IN /\ state' = st
          /\ IF exp.i < Len(EndpointList)
             THEN /\ exp' = [pc |-> "probing", i |-> exp.i + 1,
                             results |-> results]
                  /\ ev' = [Response("ExploreResponse",
                                     ProbeRequest(st, exp.i + 1), resp, ret)
                               EXCEPT !.path =
                                   ExplorePath(EndpointList[exp.i + 1])]
             ELSE /\ exp' = [pc |-> "done", i |-> 0, results |-> results]
                  /\ ev' = Response("ExploreResponse", NoReq, resp, ret)
    /\ Noted(resp)
    /\ env' = Sent(env, ev'.req)
    /\ UNCHANGED <<conn, pending, rec, late>>

\* A script that connects and explores, as main() does
NextExplore ==
    \/ exp.pc /= "probing" /\ ConnectStart
    \/ \E resp \in Responses(OneInfo, NoCookies) : InfoResponse(resp)
    \/ \E resp \in Responses(OneLogin, SessionCookies) : LoginResponse(resp)
    \/ \E resp \in Responses(OneSites, NoCookies) : SitesResponse(resp)
    \/ ExploreStart
    \/ \E resp \in Responses(CallBodies, NoCookies) : ExploreResponse(resp)

SpecExplore == Init /\ [][NextExplore]_vars

----------------------------------------------------------------------------
(* The module's interface and the calls the README examples make on it *)

\* module.exports
Exports ==
    {"CONFIG", "connect", "apiCall", "getDevices", "adoptDevice",
     "getNetworks", "createNetwork", "getGatewayAcls", "createGatewayAcl",
     "createSwitchAcl", "getWlanGroups", "getWlans", "getSsids", "createSsid",
     "updateSsid", "deleteSsid", "createWlan", "getPortProfiles",
     "createPortProfile", "getSwitchPorts", "updateSwitchPort", "getEap",
     "updateEap", "getStaticRoutes", "exploreSettings"}

\* The members the README examples call: omada.<member>(...)
ReadmeCalls ==
    {"connect", "apiCall", "getNetworks", "getWlanGroups", "getSsids",
     "createSsid", "getEap", "updateEap", "setEapChannel"}

\* typeof omada[f]
Member(f) == IF f \in Exports THEN "function" ELSE "undefined"

\* The apiCall() each helper makes; for apiCall itself, the README's
\* apiCall('GET', '/setting/service/mdns')
HelperInput(f) ==
    CASE f = "getNetworks" ->
           [method |-> "GET", path |-> <<"/", "n", "?", "p", "=", "1">>,
            hasBody |-> FALSE]
      [] f = "getWlanGroups" ->
           [method |-> "GET", path |-> <<"/", "w", "?", "p", "=", "1">>,
            hasBody |-> FALSE]
      [] f = "getSsids" ->
           [method |-> "GET", path |-> <<"/", "w", "/", "g", "/", "s">>,
            hasBody |-> FALSE]
      [] f = "createSsid" ->
           [method |-> "POST", path |-> <<"/", "w", "/", "g", "/", "s">>,
            hasBody |-> TRUE]
      [] f = "getEap" ->
           [method |-> "GET", path |-> <<"/", "e", "/", "m">>,
            hasBody |-> FALSE]
      [] f = "updateEap" ->
           [method |-> "PATCH", path |-> <<"/", "e", "/", "m">>,
            hasBody |-> TRUE]
      [] OTHER ->
           [method |-> "GET", path |-> <<"/", "m">>, hasBody |-> FALSE]

\* TypeError: omada.<f> is not a function
NotAFunction(f) == [NoData EXCEPT !.type = "TypeError", !.text = <<f>>]

\* await omada.<f>(...) in a README example: the member is looked up and
\* called; calling undefined throws, a function runs up to its first await
ReadmeCall(f) ==
    IF Member(f) = "undefined"
    THEN /\ ev' = Event("ReadmeCall", NoReq, NoResp, Thrown(NotAFunction(f)),
                        <<>>)
         /\ UNCHANGED <<state, conn, pending, lastSet, fresh, jar, env, rec,
                        late, exp>>
    ELSE IF f = "connect" THEN ConnectStart
    ELSE ApiCallStart(HelperInput(f))

NextReadme ==
    \/ \E f \in ReadmeCalls : ReadmeCall(f)
    \/ \E resp \in Responses(OneInfo, SessionCookies) : InfoResponse(resp)
    \/ \E resp \in Responses(OneLogin, SessionCookies) : LoginResponse(resp)
    \/ \E resp \in Responses(OneSites, SessionCookies) : SitesResponse(resp)
    \/ \E resp \in Responses(OneCall, SessionCookies) : ApiCallResponse(resp)

SpecReadme == Init /\ [][NextReadme]_vars

----------------------------------------------------------------------------
(* Properties *)

Connected == conn.pc = "idle" /\ conn.outcome = "ok"

Failed == conn.pc = "idle" /\ conn.outcome = "fail"

\* The name of a stored cookie: the text before its first '='
NameOf(entry) == SplitFirst(entry, "=")

\* The entries the store holds for a cookie name
EntriesFor(cookies, n) == {i \in 1..Len(cookies) : NameOf(cookies[i]) = n}

\* The names the server has set a cookie for
NamesSet == {n \in CookieNames : lastSet[n] /= Undef}

\* C1, as stated: after a connect() that returned successfully, identity,
\* token, site identifier and cookie store are all non-empty.
C1_AllFourNonEmpty ==
    Connected =>
        /\ Truthy(state.controllerId)
        /\ Truthy(state.token)
        /\ Truthy(state.siteId)
        /\ Len(state.cookies) > 0

\* C1, amended: after a connect() that returned successfully, identity and
\* token are non-empty; the site identifier is the id of the first site
\* entry, whatever it is, and the cookie store is non-empty exactly when the
\* controller has set a cookie.
C1_IdentityAndTokenNonEmpty ==
    Connected =>
        /\ Truthy(state.controllerId)
        /\ Truthy(state.token)
        /\ state.siteId = conn.got.siteId
        /\ (Len(state.cookies) > 0 <=> NamesSet /= {})

\* A connect() has returned successfully, no response ever set a cookie and
\* the first site entry carried no id.
C1_Witness ==
    /\ Connected
    /\ ev.act = "SitesResponse"
    /\ state.cookies = <<>>
    /\ state.siteId = Undef

\* C2: when the login response carries an error code other than success,
\* connect() fails with the login error and issues no site-list request.
C2_LoginErrorStopsConnect ==
    (/\ ev.act = "LoginResponse"
     /\ ev.resp.transport = "ok"
     /\ ev.resp.body.json
     /\ ev.resp.body.errorCode \notin {NoCode, Success})
        => /\ Failed
           /\ conn.err = "Login failed"
           /\ ev.req = NoReq
           /\ conn.log = <<"info", "login">>

\* The login response carried -30109 (and even a token).
C2_Witness ==
    /\ ev.act = "LoginResponse"
    /\ ev.resp.body.errorCode = BadCredentials
    /\ Truthy(ev.resp.body.token)
    /\ Failed

\* C3, as stated: after a failed connect() the session holds none of
\* identity, token and site identifier.
C3_NothingHeldAfterFailure ==
    Failed =>
        /\ ~Truthy(state.controllerId)
        /\ ~Truthy(state.token)
        /\ ~Truthy(state.siteId)

\* C3, amended: a failed connect() stops at the failing step and clears
\* nothing: the identity and the token its earlier steps obtained are held
\* (the identity after a failed login, identity and token after a failed
\* site resolution), and what it did not obtain stays as it was.
C3_EarlierStepsStay ==
    Failed =>
        /\ ev.req.kind /= "call" => ev.req = NoReq
        /\ conn.got.siteId = Undef
        /\ conn.got.controllerId /= Undef
              => state.controllerId = conn.got.controllerId
        /\ state.token =
              IF conn.got.token /= Undef THEN conn.got.token ELSE conn.preToken
        /\ conn.err = "Login failed"
              => Truthy(state.controllerId) /\ conn.got.token = Undef
        /\ conn.err = "No sites found"
              => Truthy(state.controllerId) /\ Truthy(state.token)

\* The first connect() failed at login: the identity is held, no token is.
C3_Witness ==
    /\ Failed
    /\ conn.err = "Login failed"
    /\ Truthy(state.controllerId)
    /\ state.token = Null
    /\ state.siteId = Null

\* A second connect(), right after a successful one, has returned
SecondConnectDone ==
    /\ ev.act = "SitesResponse"
    /\ Connected
    /\ conn.reconnect

\* C4, as stated: after two successful connect() in succession, identity,
\* token and site identifier are those of the second handshake and the
\* cookie store holds no cookie set only before the second handshake.
C4_NothingStale ==
    SecondConnectDone =>
        /\ state.controllerId = conn.got.controllerId
        /\ state.token = conn.got.token
        /\ state.siteId = conn.got.siteId
        /\ \A n \in CookieNames \ fresh : EntriesFor(state.cookies, n) = {}

\* C4, amended: after two successful connect() in succession, identity,
\* token and site identifier are those of the second handshake, and every
\* cookie the second handshake set holds the value it set last; a cookie
\* the second handshake did not set again is kept from before.
C4_SecondHandshakeValues ==
    SecondConnectDone =>
        /\ state.controllerId = conn.got.controllerId
        /\ state.token = conn.got.token
        /\ state.siteId = conn.got.siteId
        /\ \A n \in CookieNames :
              \A i \in EntriesFor(state.cookies, n) :
                  state.cookies[i] = n \o <<"=">> \o lastSet[n]
        /\ \A n \in NamesSet : Cardinality(EntriesFor(state.cookies, n)) = 1

\* The second handshake brought another token and set no cookie, and the
\* cookie of the first session is still in the store.
C4_Witness ==
    /\ SecondConnectDone
    /\ state.token /= conn.preToken
    /\ fresh = {}
    /\ state.cookies /= <<>>

\* s ends with suffix
EndsWith(s, suffix) ==
    /\ Len(suffix) <= Len(s)
    /\ SubSeq(s, Len(s) - Len(suffix) + 1, Len(s)) = suffix

\* How often ch occurs in s
Count(s, ch) == Cardinality({i \in 1..Len(s) : s[i] = ch})

\* The cookies of a Cookie header: its parts between '; '
RECURSIVE HeaderParts(_)
HeaderParts(h) ==
    LET k == IndexFrom(h, ";", 1)
    IN IF k = 0 THEN <<h>>
       ELSE <<SubSeq(h, 1, k - 1)>> \o HeaderParts(SubSeq(h, k + 2, Len(h)))

\* The Cookie header carries each cookie the server has set, once, with the
\* value set last, and nothing else; there is no header when it set none.
CarriesCookies(req) ==
    IF NamesSet = {} THEN req.cookie = Undef
    ELSE /\ req.cookie /= Undef
         /\ Len(HeaderParts(req.cookie)) = Cardinality(NamesSet)
         /\ {HeaderParts(req.cookie)[i] : i \in 1..Len(HeaderParts(req.cookie))}
               = {n \o <<"=">> \o lastSet[n] : n \in NamesSet}

\* C5, as stated: every request of apiCall(), in every session state,
\* carries a Csrf-Token header, the token query parameter and a Cookie
\* header.
C5_AlwaysAllCarriers ==
    ev.act = "ApiCallStart" =>
        /\ ev.req.csrf /= Undef
        /\ ev.req.cookie /= Undef
        /\ EndsWith(ev.req.url, TokenParam \o ToStr(state.token))

\* C5, amended: every request of apiCall() carries the token query
\* parameter, which reads 'null' while no token is held; it carries the
\* Csrf-Token header only while a token is held, and one Cookie header with
\* all stored cookies only while the store is not empty.
C5_CarriesWhatIsHeld ==
    ev.act = "ApiCallStart" =>
        /\ EndsWith(ev.req.url,
                    IF state.token = Null THEN <<"=", "n", "u", "l", "l">>
                    ELSE <<"=">> \o state.token)
        /\ EndsWith(ev.req.url, TokenParam \o ToStr(state.token))
        /\ (state.token = Null => ev.req.csrf = Undef)
        /\ (state.token /= Null => ev.req.csrf = state.token)
        /\ CarriesCookies(ev.req)

\* An apiCall() before any connect(): no Csrf-Token header, no Cookie
\* header, 'token=null' in the URL.
C5_Witness ==
    /\ ev.act = "ApiCallStart"
    /\ conn.outcome = "none"
    /\ conn.pc = "idle"
    /\ ev.req.csrf = Undef
    /\ ev.req.cookie = Undef
    /\ EndsWith(ev.req.url, <<"n", "u", "l", "l">>)

\* C6: the URL of an apiCall() is base address, '/', identity,
\* '/api/v2/sites/', site identifier and path, then 'token=<token>' joined
\* with '&' when the path has a query string and with '?' otherwise, so it
\* has exactly one '?' and ends in the token parameter.
C6_OneQuestionMark ==
    ev.act = "ApiCallStart" =>
        LET prefix == BaseUrl \o <<"/">> \o ToStr(state.controllerId)
                        \o <<"/", "a", "p", "i", "/", "v", "2", "/", "s",
                              "i", "t", "e", "s", "/">>
                        \o ToStr(state.siteId) \o ev.path
            joint == IF Count(ev.path, "?") > 0 THEN "&" ELSE "?"
        IN /\ StartsWith(ev.req.url, prefix)
           /\ ev.req.url[Len(prefix) + 1] = joint
           /\ EndsWith(ev.req.url, TokenParam \o ToStr(state.token))
           /\ Len(ev.req.url)
                 = Len(prefix) + 1 + Len(TokenParam) + Len(ToStr(state.token))
           /\ Count(ev.req.url, "?") = 1

\* C7: the cookie store holds at most one entry per cookie name, and the
\* entry of a name is the value the most recently processed response that
\* set the name gave it.
C7_LastWriteWins ==
    /\ \A i \in 1..Len(state.cookies) : NameOf(state.cookies[i]) \in NamesSet
    /\ \A n \in NamesSet :
          /\ Cardinality(EntriesFor(state.cookies, n)) = 1
          /\ \A i \in EntriesFor(state.cookies, n) :
                state.cookies[i] = n \o <<"=">> \o lastSet[n]

\* A response has set A=2 after A=1, next to a cookie named AB: the store
\* holds A=2 and AB=1 and nothing else.
C7_Witness ==
    /\ ev.replaced
    /\ lastSet[<<"A">>] = <<"2">>
    /\ Len(state.cookies) = 2
    /\ state.cookies[2] = <<"A", "=", "2">>
    /\ state.cookies[1] = <<"A", "B", "=", "1">>

C9_OneRequestNoRecovery ==
    [][/\ ev'.act = "ApiCallStart"
          => ev'.req.kind = "call" /\ pending' = pending + 1
       /\ ev'.act = "ApiCallResponse"
          => /\ ev'.req = NoReq
             /\ pending' = pending - 1
             /\ conn' = conn
             /\ state'.controllerId = state.controllerId
             /\ state'.token = state.token
             /\ state'.siteId = state.siteId]_vars

\* An apiCall() has returned a session-expired envelope; the token is held.
C9_Witness ==
    /\ ev.act = "ApiCallResponse"
    /\ ev.ret.outcome = "returned"
    /\ ev.ret.value.errorCode = Expired
    /\ Truthy(state.token)

C11_CatchRunsOnExpiry ==
    (/\ ev.act = "RecoverTryResponse"
     /\ Truthy(state.token)
     /\ state.siteId /= Null
     /\ ev.resp.transport = "ok"
     /\ ev.resp.body.json
     /\ ev.resp.body.errorCode = Expired)
        => (rec.pc = "reconnect" /\ conn.pc = "info")

\* C12, as stated: discovery fails with one and the same error, the one of
\* the missing identity, also when the transport fails.
C12_OneDiscoveryError ==
    (ev.act = "InfoResponse" /\ Failed) => conn.err = "Controller ID not found"

\* C12, amended: when the identity field is absent, or the transport fails,
\* connect() ends in failure at this step, no login request is issued and the
\* stored identity stays as it was; the error is "Controller ID not found"
\* with the response attached in the first case and the error of the
\* transport, passed on as it is, in the second.
C12_DiscoveryFailureAborts ==
    [][(/\ ev'.act = "InfoResponse"
        /\ \/ ev'.resp.transport = "error"
           \/ ~Truthy(ParseBody(ev'.resp.body).omadacId))
          => (/\ conn'.pc = "idle"
              /\ conn'.outcome = "fail"
              /\ conn'.log = <<"info">>
              /\ ev'.req = NoReq
              /\ state'.controllerId = state.controllerId
              /\ IF ev'.resp.transport = "error"
                 THEN conn'.err = "transport" /\ ev'.ret = Thrown(NoData)
                 ELSE /\ conn'.err = "Controller ID not found"
                      /\ ev'.ret = Thrown(ParseBody(ev'.resp.body)))]_vars

\* A reconnect whose discovery answer carries no identity: the old one stays.
C12_Witness ==
    /\ ev.act = "InfoResponse"
    /\ ev.resp.transport = "ok"
    /\ Failed
    /\ conn.err = "Controller ID not found"
    /\ conn.reconnect
    /\ Truthy(state.controllerId)

\* C13: login fails when the error code is not 0, and also when it is 0 but
\* the token is missing; both cases throw the same error, "Login failed" with
\* the response body attached, connect() ends there without a site request,
\* and the stored token is the one held before.
C13_LoginFailure ==
    (/\ ev.act = "LoginResponse"
     /\ ev.resp.transport = "ok"
     /\ \/ ParseBody(ev.resp.body).errorCode /= Success
        \/ ~Truthy(ParseBody(ev.resp.body).token))
        => (/\ Failed
            /\ conn.err = "Login failed"
            /\ ev.ret = Thrown(ParseBody(ev.resp.body))
            /\ ev.req = NoReq
            /\ state.token = conn.preToken)

\* A reconnect whose login answer has error code 0 and no token: the old
\* token stays.
C13_Witness ==
    /\ ev.act = "LoginResponse"
    /\ ev.resp.transport = "ok"
    /\ ev.resp.body.json
    /\ ev.resp.body.errorCode = Success
    /\ ev.resp.body.token = Undef
    /\ Failed
    /\ conn.err = "Login failed"
    /\ Truthy(state.token)

\* C14: the site step sets the site identifier to the id of the first entry
\* of the list when the response carries entries; otherwise the identifier
\* stays as it was and the step fails, with "No sites found" exactly when a
\* response arrived (and carries no entries).
C14_FirstSiteOrFailure ==
    [][ev'.act = "SitesResponse"
          => IF /\ ev'.resp.transport = "ok"
                /\ Len(ParseBody(ev'.resp.body).sites) > 0
             THEN /\ state'.siteId = ParseBody(ev'.resp.body).sites[1]
                  /\ conn'.outcome = "ok"
                  /\ conn'.pc = "idle"
             ELSE /\ state'.siteId = state.siteId
                  /\ conn'.outcome = "fail"
                  /\ conn'.pc = "idle"
                  /\ (conn'.err = "No sites found")
                        <=> (ev'.resp.transport = "ok")]_vars

\* A list of two sites: the first one is taken.
C14_Witness ==
    /\ ev.act = "SitesResponse"
    /\ ev.resp.transport = "ok"
    /\ Len(ev.resp.body.sites) = 2
    /\ ev.resp.body.sites[1] /= ev.resp.body.sites[2]
    /\ Connected
    /\ state.siteId = ev.resp.body.sites[1]

\* C15: on a successful login response the token becomes the token of the
\* response body and the cookies the response set are stored before the
\* site-list request is built: that request is issued in the same step and
\* carries the new token, as header and as query parameter, and every cookie
\* set so far with the value set last, those of the login response included.
C15_SitesRequestCarriesNewSession ==
    (/\ ev.act = "LoginResponse"
     /\ ev.resp.transport = "ok"
     /\ ParseBody(ev.resp.body).errorCode = Success
     /\ Truthy(ParseBody(ev.resp.body).token))
        => (/\ conn.pc = "sites"
            /\ state.token = ev.resp.body.token
            /\ ev.req.kind = "sites"
            /\ ev.req.csrf = ev.resp.body.token
            /\ EndsWith(ev.req.url,
                        <<"?">> \o TokenParam \o ev.resp.body.token
                            \o <<"&", "p", "=", "1">>)
            /\ \A n \in NamesSet :
                  \E i \in 1..Len(state.cookies) :
                      state.cookies[i] = n \o <<"=">> \o lastSet[n]
            /\ CarriesCookies(ev.req))

\* A reconnect whose login response brings another token and another value
\* of the session cookie.
C15_Witness ==
    /\ ev.act = "LoginResponse"
    /\ conn.pc = "sites"
    /\ conn.reconnect
    /\ Truthy(conn.preToken)
    /\ state.token /= conn.preToken
    /\ ev.replaced
    /\ ev.req.csrf = state.token
    /\ ev.req.cookie = <<"A", "=">> \o lastSet[<<"A">>]

C17_ClearedOnReconnect ==
    (conn.reconnect /\ conn.pc \in {"info", "login"})
        => (/\ ~Truthy(state.token)
            /\ state.cookies = <<>>
            /\ ~Truthy(state.siteId))

\* C17, amended: a reconnect clears nothing: until its login response is
\* processed the session holds the token and the site identifier of the
\* earlier session, an identity, and every cookie set so far.
C17_OldSessionHeld ==
    (conn.reconnect /\ conn.pc \in {"info", "login"})
        => (/\ Truthy(state.token)
            /\ state.token = conn.preToken
            /\ state.siteId /= Null
            /\ Truthy(state.controllerId)
            /\ \A n \in NamesSet :
                  \E i \in 1..Len(state.cookies) :
                      state.cookies[i] = n \o <<"=">> \o lastSet[n])

\* A reconnect awaiting its login response with the earlier session held.
C17_Witness ==
    /\ conn.reconnect
    /\ conn.pc = "login"
    /\ Truthy(state.token)
    /\ Truthy(state.siteId)
    /\ Len(state.cookies) > 0
    /\ fresh = {}

\* C18, as stated: the discovery request of every connect() carries no
\* Csrf-Token header and no Cookie header.
C18_DiscoveryUnauthenticated ==
    ev.req.kind = "info" => (ev.req.csrf = Undef /\ ev.req.cookie = Undef)

\* C18, amended: the discovery request goes to /api/info without a token
\* parameter, and carries what the session holds: a Csrf-Token header with
\* the token held when connect() was called, if any (always on a reconnect),
\* and a Cookie header with the cookies set so far, if any.
C18_DiscoveryCarriesHeldSession ==
    ev.req.kind = "info"
        => (/\ ev.req.url = InfoUrl
            /\ ~Includes(ev.req.url, "?")
            /\ ev.req.csrf =
                  (IF Truthy(conn.preToken) THEN conn.preToken ELSE Undef)
            /\ conn.reconnect => ev.req.csrf /= Undef
            /\ CarriesCookies(ev.req))

\* The discovery request of a reconnect, with the old token and cookie.
C18_Witness ==
    /\ ev.act = "ConnectStart"
    /\ ev.req.kind = "info"
    /\ conn.reconnect
    /\ ev.req.csrf = state.token
    /\ Truthy(ev.req.csrf)
    /\ ev.req.cookie /= Undef

\* The steps of connect()
ConnectSteps ==
    {"ConnectStart", "InfoResponse", "LoginResponse", "SitesResponse"}

\* C19: with several apiCall() in flight, in whatever order their responses
\* arrive, the cookie store is the one obtained by applying the responses'
\* Set-Cookie headers one after another in arrival order: one entry per
\* name, with the value set last, in the order of the last arrival.
C19_MergesInArrivalOrder ==
    state.cookies =
        [i \in 1..Len(jar) |-> jar[i].name \o <<"=">> \o jar[i].value]

\* A response that arrived while another call was still in flight replaced
\* a cookie value; the store holds both names.
C19_Witness ==
    /\ ev.act = "ApiCallResponse"
    /\ pending >= 1
    /\ ev.replaced
    /\ Len(jar) = 2
    /\ Len(state.cookies) = 2

\* C20, as stated: no step of connect() changes a process-wide setting.
C20_NoProcessSetting ==
    [][ev'.act \in ConnectSteps => env' = env]_vars

\* C20, amended: a step of connect() changes, besides the session, the
\* process-wide NODE_TLS_REJECT_UNAUTHORIZED, which every request it sends
\* to the https base URL sets to '0'; a step that sends no request leaves it
\* alone, and no step touches the calls in flight.
C20_SetsTlsEnv ==
    [][ev'.act \in ConnectSteps
          => (/\ ev'.req.kind /= "none" => env' = <<"0">>
              /\ ev'.req.kind = "none" => env' = env
              /\ pending' = pending
              /\ rec' = rec)]_vars

\* The first connect() has sent its discovery request: the setting is '0'.
C20_Witness ==
    /\ ev.act = "ConnectStart"
    /\ ev.req.kind = "info"
    /\ ~conn.reconnect
    /\ conn.preToken = Null
    /\ env = <<"0">>

\* C21: every member the README examples call on the module is a function
\* of its exported interface: no call of an example throws a TypeError.
C21_ReadmeCallsExported ==
    ev.act = "ReadmeCall" => ev.ret.value.type /= "TypeError"

\* C22: in every reachable state the session respects the handshake order:
\* a site identifier has been set only if a token is held, and a token has
\* been set only if a controller identity is held.
C22_HandshakeOrder ==
    /\ state.siteId /= Null => Truthy(state.token)
    /\ state.token /= Null => Truthy(state.controllerId)

\* A reconnect failed at its login after an earlier session had been set up.
C22_Witness ==
    /\ Failed
    /\ conn.reconnect
    /\ conn.err = "Login failed"
    /\ Truthy(state.siteId)
    /\ Truthy(state.token)
    /\ Truthy(state.controllerId)

\* C23, as stated: an apiCall() issued while a reconnect is in flight uses
\* no field that this reconnect has assigned so far, so that identity, site
\* identifier and token of its URL all come from the earlier connect().
C23_NoMixture ==
    (ev.act = "ApiCallStart" /\ conn.reconnect /\ conn.pc /= "idle")
        => conn.got = NoFields

\* C23, amended: an apiCall() issued while a reconnect awaits its login or
\* site-list response builds its URL from what the session holds then: the
\* identity this reconnect discovered, the site identifier of the earlier
\* connect(), and the token of the earlier connect() before the login
\* response, of this reconnect after it.
C23_BuiltFromHeldFields ==
    (ev.act = "ApiCallStart" /\ conn.reconnect
        /\ conn.pc \in {"login", "sites"})
        => (/\ conn.got.siteId = Undef
            /\ state.siteId /= Null
            /\ ev.req.url =
                  BaseUrl \o <<"/">> \o conn.got.controllerId \o ApiV2
                      \o <<"/", "s", "i", "t", "e", "s", "/">>
                      \o ToStr(state.siteId) \o ev.path
                      \o Separator(ev.path) \o TokenParam
                      \o (IF conn.pc = "login" THEN conn.preToken
                          ELSE conn.got.token))

\* A call issued between the login and the site-list response of a
\* reconnect that brought another token: new token, earlier site.
C23_Witness ==
    /\ ev.act = "ApiCallStart"
    /\ conn.reconnect
    /\ conn.pc = "sites"
    /\ conn.got.token /= conn.preToken
    /\ state.token = conn.got.token
    /\ Truthy(state.siteId)
    /\ EndsWith(ev.req.url, TokenParam \o conn.got.token)

\* C24: whenever apiCall() issues a request while a token is held, with
\* other calls and a connect() in flight or not, the Csrf-Token header of
\* the request and the token parameter that ends its URL are the same token.
C24_HeaderTokenIsUrlToken ==
    (ev.act = "ApiCallStart" /\ Truthy(state.token))
        => (/\ Truthy(ev.req.csrf)
            /\ EndsWith(ev.req.url,
                        Separator(ev.path) \o TokenParam \o ev.req.csrf))

\* A call issued next to another call and a reconnect that has just
\* replaced the token.
C24_Witness ==
    /\ ev.act = "ApiCallStart"
    /\ pending = 2
    /\ conn.reconnect
    /\ conn.pc = "sites"
    /\ state.token /= conn.preToken
    /\ ev.req.csrf = state.token

\* The steps of apiCall()
CallSteps == {"ApiCallStart", "ApiCallResponse"}

\* C26: apiCall() leaves identity, token and site identifier as they are
\* whatever the answer (envelope, raw text, transport failure); it changes
\* the session only through the cookies a response sets, and a transport
\* failure, like the sending of the request, changes nothing of it.
C26_CallChangesCookiesOnly ==
    [][ev'.act \in CallSteps
          => (/\ state'.controllerId = state.controllerId
              /\ state'.token = state.token
              /\ state'.siteId = state.siteId
              /\ ev'.act = "ApiCallStart" => state' = state
              /\ ev'.resp.transport = "error" => state' = state
              /\ state'.cookies /= state.cookies => jar' /= jar)]_vars

\* A raw-text answer that set a cookie: the store changed, the rest stayed.
C26_Witness ==
    /\ ev.act = "ApiCallResponse"
    /\ ev.ret.outcome = "returned"
    /\ ev.ret.value.type = "string"
    /\ ev.replaced
    /\ Connected
    /\ state.controllerId = conn.got.controllerId
    /\ state.token = conn.got.token
    /\ state.siteId = conn.got.siteId

\* The stored entries of a cookie name
StoredFor(cookies, n) == {cookies[i] : i \in EntriesFor(cookies, n)}

\* C27: a step changes the store only for the names whose value the response
\* set anew: every other name, also one that is a prefix of such a name or
\* has it as a prefix, keeps its entry; and the Cookie header of a request
\* sent in the step is the entries of the store, in order, joined by '; '.
C27_MergeTouchesOneName ==
    [][/\ \A n \in CookieNames :
            lastSet'[n] = lastSet[n]
                => StoredFor(state'.cookies, n) = StoredFor(state.cookies, n)
       /\ (ev'.req.kind /= "none" /\ state'.cookies /= <<>>)
            => HeaderParts(ev'.req.cookie) = state'.cookies
       /\ (ev'.req.kind /= "none" /\ state'.cookies = <<>>)
            => ev'.req.cookie = Undef]_vars

\* The login response replaced A=1 by A=2 next to AB=1, and the site-list
\* request carries both.
C27_Witness ==
    /\ ev.act = "LoginResponse"
    /\ ev.replaced
    /\ state.cookies = <<<<"A", "B", "=", "1">>, <<"A", "=", "2">>>>
    /\ ev.req.kind = "sites"
    /\ ev.req.cookie
          = <<"A", "B", "=", "1", ";", " ", "A", "=", "2">>

\* C28: when every issued request is eventually answered, every connect()
\* eventually settles; it issues its requests in the order discovery, login,
\* site list, at most these three and none twice; a transport failure at a
\* step ends connect() in failure without another request.
C28_ConnectSettles ==
    /\ [](conn.log \in {<<>>, <<"info">>, <<"info", "login">>,
                         <<"info", "login", "sites">>})
    /\ [][(ev'.act \in ConnectSteps /\ ev'.resp.transport = "error")
             => (/\ conn'.pc = "idle"
                 /\ conn'.outcome = "fail"
                 /\ conn'.err = "transport"
                 /\ conn'.log = conn.log
                 /\ ev'.req = NoReq)]_vars
    /\ (conn.pc /= "idle")
          ~> (conn.pc = "idle" /\ conn.outcome \in {"ok", "fail"})

\* A connect() that ended at its login request, which the transport failed.
C28_Witness ==
    /\ ev.act = "LoginResponse"
    /\ ev.resp.transport = "error"
    /\ Failed
    /\ conn.err = "transport"
    /\ conn.log = <<"info", "login">>

\* C25, as stated: after a reconnect has succeeded, the late answer to a
\* request of the earlier session leaves the session cookie that the new
\* login issued as it is.
C25_LateResponseKeepsLoginCookie ==
    (late.pc = "late" /\ <<"A">> \in late.issued)
        => state.cookies = late.held

\* C25, amended: the late answer is merged like any other: the store is
\* the cookies in the order of their last arrival, the session cookie has
\* the value set last, by the late answer if it set one, and the store
\* differs from the one the new login left only if the late answer set the
\* cookie to another value.
C25_LateResponseReplaces ==
    (ev.act = "LateResponse" /\ late.pc = "late" /\ <<"A">> \in late.issued)
        => (/\ state.cookies =
                  [i \in 1..Len(jar) |->
                      jar[i].name \o <<"=">> \o jar[i].value]
            /\ state.cookies = <<<<"A", "=">> \o lastSet[<<"A">>]>>
            /\ state.cookies /= late.held => ev.replaced)

\* The new login issued A=2, the late answer set A=1: the store holds A=1.
C25_Witness ==
    /\ ev.act = "LateResponse"
    /\ late.pc = "late"
    /\ late.held = <<<<"A", "=", "2">>>>
    /\ <<"A">> \in late.issued
    /\ ev.replaced
    /\ state.cookies = <<<<"A", "=", "1">>>>

\* The steps of exploreSettings()
ExploreSteps == {"ExploreStart", "ExploreResponse"}

\* C29: exploreSettings() probes its endpoints one at a time in list order:
\* while it probes endpoint i, one request is out, for that endpoint, and the
\* results hold one entry for each endpoint before it, in list order; when it
\* returns, the results hold exactly one entry per listed endpoint.  A probe
\* that the transport fails is recorded as an error, an answer that is not
\* JSON as an entry without error code, and the next endpoint is probed.
C29_OneEntryPerEndpoint ==
    /\ exp.pc = "probing"
          => (/\ exp.i \in 1..Len(EndpointList)
              /\ Len(exp.results) = exp.i - 1
              /\ ev.act \in ExploreSteps
                    => (/\ ev.req.kind = "call"
                        /\ ev.path = EndpointList[exp.i] \o Paging))
    /\ exp.pc = "done" => Len(exp.results) = Len(EndpointList)
    /\ \A k \in 1..Len(exp.results) :
          exp.results[k].endpoint = EndpointList[k]
    /\ ev.act = "ExploreResponse"
          => (/\ Len(exp.results) >= 1
              /\ exp.pc \in {"probing", "done"}
              /\ ev.resp.transport = "error"
                    => exp.results[Len(exp.results)].error
              /\ ev.resp.transport = "ok"
                    => (/\ ~exp.results[Len(exp.results)].error
                        /\ exp.results[Len(exp.results)].errorCode
                              = ParseBody(ev.resp.body).errorCode))

\* All endpoints were probed although the first probe failed in transport
\* and the second was answered with text that is not JSON.
C29_Witness ==
    /\ exp.pc = "done"
    /\ Len(exp.results) = 3
    /\ exp.results[1].error
    /\ ~exp.results[2].error
    /\ exp.results[2].errorCode = NoCode
    /\ exp.results[3].errorCode = Success

\* C30: the URL of every probe of exploreSettings() is well-formed: it has
\* exactly one '?'.
C30_ProbeUrlWellFormed ==
    (ev.act \in ExploreSteps /\ ev.req.kind = "call")
        => Count(ev.req.url, "?") = 1

====
